---- MODULE Spec2Model ----
(***************************************************************************)
(* A model of backend/server.py, the PPTX -> HTML table converter.         *)
(*                                                                         *)
(* Python strings are sequences of one-character strings, so that          *)
(* escaping, slugifying, stripping and prefix tests are computed the way   *)
(* the code computes them.  None and the empty string are both <<>>        *)
(* wherever the code only tests truthiness.  The characters are those a    *)
(* TLA+ string can hold, U+0000 to U+00FF.                                 *)
(*                                                                         *)
(* A Python function that registers CSS rules takes the registry and       *)
(* returns the new one next to its value; one that may raise returns a     *)
(* record with a raised flag and the registry as it was left when the      *)
(* exception escaped.  A registry is [rules, calls]: rules is the content  *)
(* of the set, calls the rules handed to add_css so far, in call order.    *)
(***************************************************************************)
EXTENDS Integers, Sequences, FiniteSets, TLC

VARIABLES
    GENERATED_CSS,  \* the module-level registry (server.py line 46)
    pc,             \* per worker thread: where it is inside convert()
    doc,            \* per worker thread: the uploaded document
    tmp,            \* per worker thread: name of its temporary file (0: none)
    files,          \* names of the temporary files that exist on disk
    theme,          \* per worker thread: local `theme` of pptx_to_html
    blocks,         \* per worker thread: local `blocks` of pptx_to_html
    next_table,     \* per worker thread: index of the next table to render
    pending,        \* per worker thread: add_css calls the table in hand has yet to make
    table_out,      \* per worker thread: what process_table returns for that table
    own,            \* per worker thread: rules its own rendering registered
    response,       \* per worker thread: what convert() returned
    served,         \* number of requests accepted so far
    arg,            \* function-level specifications: the function's input
    ret             \* function-level specifications: its result

vars == <<GENERATED_CSS, pc, doc, tmp, files, theme, blocks, next_table, pending,
          table_out, own, response, served, arg, ret>>

server_vars == <<GENERATED_CSS, pc, doc, tmp, files, theme, blocks, next_table,
                 pending, table_out, own, response, served>>

----------------------------------------------------------------------------
(* Strings *)

UpperChars == <<"A","B","C","D","E","F","G","H","I","J","K","L","M","N","O","P","Q","R","S","T","U","V","W","X","Y","Z">>

LowerChars == <<"a","b","c","d","e","f","g","h","i","j","k","l","m","n","o","p","q","r","s","t","u","v","w","x","y","z">>

DigitChars == <<"0","1","2","3","4","5","6","7","8","9">>

HexDigits == <<"0","1","2","3","4","5","6","7","8","9","A","B","C","D","E","F">>

\* the upper- and lower-case letters of U+0080..U+00FF that map to each other
Latin1UpperChars == <<"À","Á","Â","Ã","Ä","Å","Æ","Ç","È","É","Ê","Ë","Ì","Í","Î","Ï","Ð","Ñ","Ò","Ó","Ô","Õ","Ö","Ø","Ù","Ú","Û","Ü","Ý","Þ">>

Latin1LowerChars == <<"à","á","â","ã","ä","å","æ","ç","è","é","ê","ë","ì","í","î","ï","ð","ñ","ò","ó","ô","õ","ö","ø","ù","ú","û","ü","ý","þ">>

CasedUpper == UpperChars \o Latin1UpperChars

CasedLower == LowerChars \o Latin1LowerChars

\* str.strip() with no argument removes the characters for which
\* str.isspace() holds: U+0009..U+000D, U+001C..U+001F, U+0020, U+0085, U+00A0
Whitespace ==
    {"\t", "\n", "", "\f", "\r", "", "", "", "", " ",
     "", " "}

Range(s) == {s[i] : i \in DOMAIN s}

IndexOf(c, s) == CHOOSE i \in DOMAIN s : s[i] = c

CasedUpperSet == Range(CasedUpper)

CasedLowerSet == Range(CasedLower)

\* str.upper() of one character: a string, since the sharp s becomes "SS".
\* The capitals of the micro sign and of y with diaeresis lie beyond U+00FF
\* and are written by their code points.
UpperChar(c) ==
    IF c \in CasedLowerSet THEN <<CasedUpper[IndexOf(c, CasedLower)]>>
    ELSE IF c = "ß" THEN <<"S","S">>
    ELSE IF c = "µ" THEN <<"U+039C">>
    ELSE IF c = "ÿ" THEN <<"U+0178">>
    ELSE <<c>>

\* str.lower() of one character
LowerChar(c) == IF c \in CasedUpperSet THEN CasedLower[IndexOf(c, CasedUpper)] ELSE c

RECURSIVE Upper(_)
Upper(s) == IF s = <<>> THEN <<>> ELSE UpperChar(Head(s)) \o Upper(Tail(s))

Lower(s) == [i \in DOMAIN s |-> LowerChar(s[i])]

\* the character class [a-zA-Z0-9]
IsAlnum(c) == c \in Range(UpperChars) \cup Range(LowerChars) \cup Range(DigitChars)

\* s[:n]
Take(s, n) == SubSeq(s, 1, IF Len(s) < n THEN Len(s) ELSE n)

\* s[n:]
Drop(s, n) == SubSeq(s, n + 1, Len(s))

StartsWith(s, p) == Len(p) <= Len(s) /\ SubSeq(s, 1, Len(p)) = p

\* str.strip(chars)
RECURSIVE LStrip(_, _)
LStrip(s, chars) == IF s # <<>> /\ Head(s) \in chars THEN LStrip(Tail(s), chars) ELSE s

RECURSIVE RStrip(_, _)
RStrip(s, chars) ==
    IF s # <<>> /\ s[Len(s)] \in chars THEN RStrip(SubSeq(s, 1, Len(s) - 1), chars) ELSE s

Strip(s, chars) == RStrip(LStrip(s, chars), chars)

\* sep.join(items)
RECURSIVE Join(_, _)
Join(sep, items) ==
    IF items = <<>> THEN <<>>
    ELSE IF Len(items) = 1 THEN items[1]
    ELSE items[1] \o sep \o Join(sep, Tail(items))

\* F applied to the value of v: a local variable assigned once and read many
\* times (v is evaluated exactly once)
With(v, F(_)) == CHOOSE r \in {F(x) : x \in {v}} : TRUE

\* list(dict.fromkeys(items)): first occurrences, in order
RECURSIVE FromKeys(_)
FromKeys(items) ==
    IF items = <<>> THEN <<>>
    ELSE With(FromKeys(SubSeq(items, 1, Len(items) - 1)), LAMBDA init :
            IF items[Len(items)] \in Range(init) THEN init
            ELSE Append(init, items[Len(items)]))

\* str(n) for an int n >= 0
RECURSIVE IntToStr(_)
IntToStr(n) ==
    IF n < 10 THEN <<DigitChars[n + 1]>>
    ELSE IntToStr(n \div 10) \o <<DigitChars[(n % 10) + 1]>>

\* format(n, "X") for n >= 0
RECURSIVE HexStr(_)
HexStr(n) ==
    IF n < 16 THEN <<HexDigits[n + 1]>>
    ELSE HexStr(n \div 16) \o <<HexDigits[(n % 16) + 1]>>

\* format(n, "02X"): at least two characters, the sign included
Hex02X(n) ==
    IF n < 0 THEN <<"-">> \o HexStr(-n)
    ELSE IF n < 16 THEN <<"0">> \o HexStr(n)
    ELSE HexStr(n)

\* s.split(sep)[-1] for a one-character sep
RECURSIVE LastPart(_, _)
LastPart(s, sep) ==
    IF \E i \in DOMAIN s : s[i] = sep
    THEN LastPart(Drop(s, CHOOSE i \in DOMAIN s : s[i] = sep), sep)
    ELSE s

\* html.escape(s) (quote=True)
EscapeChar(c) ==
    CASE c = "&" -> <<"&","a","m","p",";">>
      [] c = "<" -> <<"&","l","t",";">>
      [] c = ">" -> <<"&","g","t",";">>
      [] c = "\"" -> <<"&","q","u","o","t",";">>
      [] c = "'" -> <<"&","#","x","2","7",";">>
      [] OTHER -> <<c>>

RECURSIVE html_escape(_)
html_escape(s) == IF s = <<>> THEN <<>> ELSE EscapeChar(Head(s)) \o html_escape(Tail(s))

----------------------------------------------------------------------------
(* Helpers (server.py lines 51-65) *)

maxlen == 40

\* re.sub(r"[^a-zA-Z0-9]+", "-", s): every maximal run of other characters
\* becomes one hyphen
RECURSIVE ReSubNonAlnum(_)
ReSubNonAlnum(s) ==
    IF s = <<>> THEN <<>>
    ELSE IF IsAlnum(Head(s)) THEN <<Head(s)>> \o ReSubNonAlnum(Tail(s))
    ELSE IF Len(s) > 1 /\ ~IsAlnum(s[2]) THEN ReSubNonAlnum(Tail(s))
    ELSE <<"-">> \o ReSubNonAlnum(Tail(s))

sanitize(s) ==
    IF s = <<>> THEN <<>>
    ELSE Take(Lower(Strip(ReSubNonAlnum(s), {"-"})), maxlen)

\* rgb is a sequence of ints (an RGBColor is a triple), <<>> for None.
\* Indexing None or a sequence shorter than three raises inside the try, and
\* the function returns None.
rgb_to_hex(rgb) ==
    IF Len(rgb) < 3 THEN <<>>
    ELSE <<"#">> \o Hex02X(rgb[1]) \o Hex02X(rgb[2]) \o Hex02X(rgb[3])

Rule(selector, body) == selector \o <<" ","{"," ">> \o body \o <<" ","}">>

\* the registry holding the given rules, before any add_css call
Registry(rules) == [rules |-> rules, calls |-> <<>>]

\* GENERATED_CSS.add(...)
add_css(css, selector, body) ==
    [rules |-> css.rules \cup {Rule(selector, body)},
     calls |-> Append(css.calls, Rule(selector, body))]

----------------------------------------------------------------------------
(* Theme extraction (server.py lines 30-41, 71-88) *)

\* a dict is a function from keys to values
DictGet(d, k) == IF k \in DOMAIN d THEN d[k] ELSE <<>>

DictSet(d, k, v) == [x \in DOMAIN d \cup {k} |-> IF x = k THEN v ELSE d[x]]

DictSetDefault(d, k, v) == IF k \in DOMAIN d THEN d ELSE DictSet(d, k, v)

THEME_COLOR_ITEMS ==
    << <<<<"A","C","C","E","N","T","1">>, <<"#","4","4","7","2","C","4">>>>, <<<<"A","C","C","E","N","T","_","1">>, <<"#","4","4","7","2","C","4">>>>,
       <<<<"A","C","C","E","N","T","2">>, <<"#","E","D","7","D","3","1">>>>, <<<<"A","C","C","E","N","T","_","2">>, <<"#","E","D","7","D","3","1">>>>,
       <<<<"A","C","C","E","N","T","3">>, <<"#","A","5","A","5","A","5">>>>, <<<<"A","C","C","E","N","T","_","3">>, <<"#","A","5","A","5","A","5">>>>,
       <<<<"A","C","C","E","N","T","4">>, <<"#","F","F","C","0","0","0">>>>, <<<<"A","C","C","E","N","T","_","4">>, <<"#","F","F","C","0","0","0">>>>,
       <<<<"A","C","C","E","N","T","5">>, <<"#","5","B","9","B","D","5">>>>, <<<<"A","C","C","E","N","T","_","5">>, <<"#","5","B","9","B","D","5">>>>,
       <<<<"A","C","C","E","N","T","6">>, <<"#","7","0","A","D","4","7">>>>, <<<<"A","C","C","E","N","T","_","6">>, <<"#","7","0","A","D","4","7">>>>,
       <<<<"T","E","X","T","1">>, <<"#","0","0","0","0","0","0">>>>, <<<<"T","E","X","T","_","1">>, <<"#","0","0","0","0","0","0">>>>,
       <<<<"T","E","X","T","2">>, <<"#","F","F","F","F","F","F">>>>, <<<<"T","E","X","T","_","2">>, <<"#","F","F","F","F","F","F">>>>,
       <<<<"B","A","C","K","G","R","O","U","N","D","1">>, <<"#","F","F","F","F","F","F">>>>, <<<<"B","A","C","K","G","R","O","U","N","D","_","1">>, <<"#","F","F","F","F","F","F">>>>,
       <<<<"B","A","C","K","G","R","O","U","N","D","2">>, <<"#","0","0","0","0","0","0">>>>, <<<<"B","A","C","K","G","R","O","U","N","D","_","2">>, <<"#","0","0","0","0","0","0">>>> >>

THEME_COLOR_MAP ==
    [k \in {THEME_COLOR_ITEMS[i][1] : i \in DOMAIN THEME_COLOR_ITEMS} |->
        (CHOOSE p \in Range(THEME_COLOR_ITEMS) : p[1] = k)[2]]

\* The loop over the children of <a:clrScheme> (lines 77-81).  An element is
\* [tag, srgb, has_val, val]: srgb says whether it has an <a:srgbClr>
\* descendant, has_val whether that descendant has a val attribute, and val is
\* the attribute's value (which may be empty).  Without the attribute
\* srgb.get("val") is None and "#" + None raises TypeError, which ends the
\* loop with what was recorded.
RECURSIVE SchemeLoop(_, _)
SchemeLoop(th, els) ==
    IF els = <<>> THEN th
    ELSE LET el == Head(els)
             key == Upper(LastPart(el.tag, "}"))
         IN IF ~el.srgb THEN SchemeLoop(th, Tail(els))
            ELSE IF ~el.has_val THEN th
            ELSE SchemeLoop(DictSet(th, key, <<"#">> \o el.val), Tail(els))

\* for k, v in THEME_COLOR_MAP.items(): theme.setdefault(k.upper(), v)
RECURSIVE FillDefaults(_, _)
FillDefaults(th, items) ==
    IF items = <<>> THEN th
    ELSE FillDefaults(DictSetDefault(th, Upper(items[1][1]), items[1][2]), Tail(items))

\* prs.theme is "error" when reading or parsing the theme part raises,
\* "absent" when the theme has no <a:clrScheme>, else "ok" with prs.scheme the
\* list of the scheme's child elements.
extract_theme_colors(prs) ==
    LET extracted == IF prs.theme = "ok" THEN SchemeLoop(<<>>, prs.scheme) ELSE <<>>
    IN FillDefaults(extracted, THEME_COLOR_ITEMS)

----------------------------------------------------------------------------
(* CSS class generators (server.py lines 94-131).  Each returns the list of *)
(* classes and the registry after its add_css calls.                        *)

bg_classes(css, hex_color, semantic) ==
    IF hex_color = <<>> THEN [classes |-> <<>>, css |-> css]
    ELSE LET key == Upper(Drop(hex_color, 1))
             cls_hex == <<"b","g","-">> \o key
             body == <<"b","a","c","k","g","r","o","u","n","d","-","c","o","l","o","r",":">> \o hex_color \o <<";">>
             css1 == add_css(css, <<".">> \o cls_hex, body)
         IN IF semantic # <<>>
            THEN With(<<"b","g","-">> \o sanitize(semantic), LAMBDA cls_sem :
                    [classes |-> <<cls_sem, cls_hex>>,
                     css |-> add_css(css1, <<".">> \o cls_sem, body)])
            ELSE [classes |-> <<cls_hex>>, css |-> css1]

text_color_class(css, hex_color) ==
    IF hex_color = <<>> THEN [classes |-> <<>>, css |-> css]
    ELSE LET cls == <<"t","e","x","t","-">> \o Upper(Drop(hex_color, 1))
         IN [classes |-> <<cls>>,
             css |-> add_css(css, <<".">> \o cls, <<"c","o","l","o","r",":">> \o hex_color \o <<";">>)]

font_family_class(css, name) ==
    IF name = <<>> THEN [classes |-> <<>>, css |-> css]
    ELSE LET cls == <<"f","f","-">> \o sanitize(name)
         IN [classes |-> <<cls>>,
             css |-> add_css(css, <<".">> \o cls, <<"f","o","n","t","-","f","a","m","i","l","y",":","'">> \o name \o <<"'",";">>)]

\* pt100 is the size in hundredths of a point (the unit of the sz attribute);
\* int(pt) truncates.
font_size_class(css, pt100) ==
    IF pt100 = 0 THEN [classes |-> <<>>, css |-> css]
    ELSE LET n == IntToStr(pt100 \div 100)
             cls == <<"f","s","-">> \o n
         IN [classes |-> <<cls>>,
             css |-> add_css(css, <<".">> \o cls, <<"f","o","n","t","-","s","i","z","e",":">> \o n \o <<"p","t",";">>)]

----------------------------------------------------------------------------
(* Run / paragraph / cell to HTML (server.py lines 137-250) *)

\* A run is [text, rgb, theme_color, name, size, bold, italic, underline,
\* fails].  rgb is <<>> or a triple; theme_color is str(fc.theme_color) or
\* <<>>; size is in hundredths of a point, 0 for None.  fails is the set of
\* font attributes whose access raises.

\* lines 144-153: the colour block, inside try/except
RunColor(css, run, th) ==
    IF "color" \in run.fails THEN [classes |-> <<>>, css |-> css]
    ELSE IF run.rgb # <<>> THEN text_color_class(css, rgb_to_hex(run.rgb))
    ELSE IF run.theme_color # <<>>
    THEN text_color_class(css, DictGet(th, Upper(LastPart(run.theme_color, "."))))
    ELSE [classes |-> <<>>, css |-> css]

\* lines 155-158
RunFamily(css, run) ==
    IF "name" \in run.fails THEN [classes |-> <<>>, css |-> css]
    ELSE font_family_class(css, run.name)

\* lines 160-164
RunSize(css, run) ==
    IF "size" \in run.fails \/ run.size = 0 THEN [classes |-> <<>>, css |-> css]
    ELSE font_size_class(css, run.size)

\* lines 166-177: the span and the emphasis tags.  run.font.bold, .italic and
\* .underline are read outside any try block.
WrapBold(span) == <<"<","b",">">> \o span \o <<"<","/","b",">">>

WrapItalic(span) == <<"<","i",">">> \o span \o <<"<","/","i",">">>

WrapUnderline(span) == <<"<","u",">">> \o span \o <<"<","/","u",">">>

\* emphasis applied the other way round: bold ends up outermost
RunEmphasis_BoldOutermost(run, span) ==
    LET u == IF run.underline THEN WrapUnderline(span) ELSE span
        i == IF run.italic THEN WrapItalic(u) ELSE u
    IN IF run.bold THEN WrapBold(i) ELSE i

RunEmphasis(run, span) ==
    LET b == IF run.bold THEN WrapBold(span) ELSE span
        i == IF run.italic THEN WrapItalic(b) ELSE b
    IN IF run.underline THEN WrapUnderline(i) ELSE i

RunRaises(run) ==
    \/ "bold" \in run.fails
    \/ "italic" \in run.fails
    \/ "underline" \in run.fails

\* lines 166-168
RunSpan(text, classes) ==
    IF classes # <<>>
    THEN <<"<","s","p","a","n"," ","c","l","a","s","s","=","\"">> \o Join(<<" ">>, FromKeys(classes)) \o <<"\"",">">> \o text
             \o <<"<","/","s","p","a","n",">">>
    ELSE text

run_to_html(css, run, th) ==
    With(html_escape(run.text), LAMBDA text :
        IF text = <<>> THEN [raised |-> FALSE, html |-> <<>>, css |-> css]
        ELSE With(RunColor(css, run, th), LAMBDA c1 :
             With(RunFamily(c1.css, run), LAMBDA c2 :
             With(RunSize(c2.css, run), LAMBDA c3 :
                IF RunRaises(run)
                THEN [raised |-> TRUE, html |-> <<>>, css |-> c3.css]
                ELSE [raised |-> FALSE,
                      html |-> RunEmphasis(run,
                                  RunSpan(text, c1.classes \o c2.classes \o c3.classes)),
                      css |-> c3.css]))))

\* parts = [run_to_html(r, theme) for r in p.runs]; "".join(parts)
RECURSIVE RunsToHtml(_, _, _)
RunsToHtml(css, runs, th) ==
    IF runs = <<>> THEN [raised |-> FALSE, html |-> <<>>, css |-> css]
    ELSE With(run_to_html(css, Head(runs), th), LAMBDA r :
            IF r.raised THEN r
            ELSE With(RunsToHtml(r.css, Tail(runs), th), LAMBDA rest :
                    IF rest.raised THEN rest
                    ELSE [raised |-> FALSE, html |-> r.html \o rest.html,
                          css |-> rest.css]))

\* A paragraph is [runs, level, buChar, fails]; fails is the set of bullet
\* attributes ("level", "pPr") whose access raises.  Lines 187-194: the bullet
\* test, inside try/except.
ParaIsListItem(p) ==
    IF "level" \in p.fails THEN FALSE
    ELSE IF p.level > 0 THEN TRUE
    ELSE IF "pPr" \in p.fails THEN FALSE
    ELSE p.buChar

para_to_html(css, p, th) ==
    With(RunsToHtml(css, p.runs, th), LAMBDA parts :
        IF parts.raised THEN parts
        ELSE With(Strip(parts.html, Whitespace), LAMBDA content :
                IF content = <<>> THEN [raised |-> FALSE, html |-> <<>>, css |-> parts.css]
                ELSE IF ParaIsListItem(p)
                THEN [raised |-> FALSE, html |-> <<"<","l","i",">">> \o content \o <<"<","/","l","i",">">>,
                      css |-> parts.css]
                ELSE [raised |-> FALSE, html |-> content, css |-> parts.css]))

\* items = [para_to_html(p, theme) for p in cell.text_frame.paragraphs]
RECURSIVE ParasToHtml(_, _, _)
ParasToHtml(css, paras, th) ==
    IF paras = <<>> THEN [raised |-> FALSE, items |-> <<>>, css |-> css]
    ELSE With(para_to_html(css, Head(paras), th), LAMBDA r :
            IF r.raised THEN [raised |-> TRUE, items |-> <<>>, css |-> r.css]
            ELSE With(ParasToHtml(r.css, Tail(paras), th), LAMBDA rest :
                    IF rest.raised THEN rest
                    ELSE [raised |-> FALSE, items |-> <<r.html>> \o rest.items,
                          css |-> rest.css]))

\* items = [i for i in items if i]
NonEmpty(items) == SelectSeq(items, LAMBDA i : i # <<>>)

\* the list test left out: always joined by line breaks
JoinItems_NeverList(items) == Join(<<"<","b","r","/",">">>, items)

\* lines 206-209

JoinItems(items) ==
    IF \E k \in DOMAIN items : StartsWith(items[k], <<"<","l","i",">">>)
    THEN <<"<","u","l",">">> \o Join(<<>>, items) \o <<"<","/","u","l",">">>
    ELSE Join(<<"<","b","r","/",">">>, items)

\* A cell is [paragraphs, fill_rgb, fill_theme, alignment, fails, is_spanned,
\* span_width, span_height].
cell_content(css, cell, th) ==
    With(ParasToHtml(css, cell.paragraphs, th), LAMBDA r :
        IF r.raised THEN [raised |-> TRUE, html |-> <<>>, css |-> r.css]
        ELSE With(NonEmpty(r.items), LAMBDA items :
                [raised |-> FALSE,
                 html |-> IF items = <<>> THEN <<>> ELSE JoinItems(items),
                 css |-> r.css]))

\* lines 216-230: the background block, inside try/except
CellBackground(css, cell, th) ==
    IF "fill" \in cell.fails THEN [classes |-> <<>>, css |-> css]
    ELSE IF cell.fill_rgb # <<>> THEN bg_classes(css, rgb_to_hex(cell.fill_rgb), <<>>)
    ELSE IF cell.fill_theme # <<>>
    THEN LET semantic == Lower(LastPart(cell.fill_theme, "."))
         IN bg_classes(css, DictGet(th, Upper(semantic)), semantic)
    ELSE [classes |-> <<>>, css |-> css]

\* lines 233-246: alignment is "CENTER", "RIGHT", or anything else (None,
\* LEFT, JUSTIFY, ...); a failing access gives align-left as well
CellAlignment(css, cell) ==
    IF "alignment" \in cell.fails
    THEN [classes |-> <<<<"a","l","i","g","n","-","l","e","f","t">>>>,
          css |-> add_css(css, <<".","a","l","i","g","n","-","l","e","f","t">>, <<"t","e","x","t","-","a","l","i","g","n",":","l","e","f","t",";">>)]
    ELSE IF cell.alignment = "CENTER"
    THEN [classes |-> <<<<"a","l","i","g","n","-","c","e","n","t","e","r">>>>,
          css |-> add_css(css, <<".","a","l","i","g","n","-","c","e","n","t","e","r">>, <<"t","e","x","t","-","a","l","i","g","n",":","c","e","n","t","e","r",";">>)]
    ELSE IF cell.alignment = "RIGHT"
    THEN [classes |-> <<<<"a","l","i","g","n","-","r","i","g","h","t">>>>,
          css |-> add_css(css, <<".","a","l","i","g","n","-","r","i","g","h","t">>, <<"t","e","x","t","-","a","l","i","g","n",":","r","i","g","h","t",";">>)]
    ELSE [classes |-> <<<<"a","l","i","g","n","-","l","e","f","t">>>>,
          css |-> add_css(css, <<".","a","l","i","g","n","-","l","e","f","t">>, <<"t","e","x","t","-","a","l","i","g","n",":","l","e","f","t",";">>)]

cell_classes(css, cell, th) ==
    With(CellBackground(css, cell, th), LAMBDA bg :
    With(CellAlignment(bg.css, cell), LAMBDA al :
        [html |-> Join(<<" ">>, FromKeys(<<<<"p","p","t","-","c","e","l","l">>>> \o bg.classes \o al.classes)),
         css |-> add_css(al.css, <<".","p","p","t","-","c","e","l","l">>,
                         <<"b","o","r","d","e","r",":","1","p","x"," ","s","o","l","i","d"," ","#","9","9","9",";","p","a","d","d","i","n","g",":","6","p","x",";","v","e","r","t","i","c","a","l","-","a","l","i","g","n",":","m","i","d","d","l","e",";">>)]))

----------------------------------------------------------------------------
(* Table processing (server.py lines 256-282) *)

\* A table is [cells], cells[r][c] being table.cell(r-1, c-1); len(table.rows)
\* is Len(cells) and len(table.columns) is the length of a row.

\* line 274: the opening of the <td>, up to the class list
CellAttrs(cell) ==
    <<"<","t","d"," ","c","o","l","s","p","a","n","=","\"">> \o IntToStr(cell.span_width) \o <<"\""," ","r","o","w","s","p","a","n","=","\"">>
        \o IntToStr(cell.span_height) \o <<"\""," ","c","l","a","s","s","=","\"">>

\* the is_spanned test left out
SkipCell_Never(cell) == FALSE

\* line 264: if getattr(cell, "is_spanned", False): continue
SkipCell(cell) == cell.is_spanned

\* lines 262-275: one cell of a row
CellToTd(css, cell, th) ==
    IF SkipCell(cell) THEN [raised |-> FALSE, html |-> <<>>, css |-> css]
    ELSE With(cell_content(css, cell, th), LAMBDA content :
            IF content.raised THEN content
            ELSE With(cell_classes(content.css, cell, th), LAMBDA classes :
                    [raised |-> FALSE,
                     html |-> CellAttrs(cell) \o classes.html \o <<"\"",">">>
                                  \o content.html \o <<"<","/","t","d",">">>,
                     css |-> classes.css]))

\* lines 260-275: the inner loop, "".join(cols)
RECURSIVE ColsToHtml(_, _, _)
ColsToHtml(css, cells, th) ==
    IF cells = <<>> THEN [raised |-> FALSE, html |-> <<>>, css |-> css]
    ELSE With(CellToTd(css, Head(cells), th), LAMBDA r :
            IF r.raised THEN r
            ELSE With(ColsToHtml(r.css, Tail(cells), th), LAMBDA rest :
                    IF rest.raised THEN rest
                    ELSE [raised |-> FALSE, html |-> r.html \o rest.html,
                          css |-> rest.css]))

\* lines 259-277: the outer loop; rows is the list of "<tr>...</tr>" strings
RECURSIVE RowsToHtml(_, _, _)
RowsToHtml(css, rows, th) ==
    IF rows = <<>> THEN [raised |-> FALSE, rows |-> <<>>, css |-> css]
    ELSE With(ColsToHtml(css, Head(rows), th), LAMBDA r :
            IF r.raised THEN [raised |-> TRUE, rows |-> <<>>, css |-> r.css]
            ELSE With(RowsToHtml(r.css, Tail(rows), th), LAMBDA rest :
                    IF rest.raised THEN rest
                    ELSE [raised |-> FALSE,
                          rows |-> <<<<"<","t","r",">">> \o r.html \o <<"<","/","t","r",">">>>> \o rest.rows,
                          css |-> rest.css]))

process_table(css, table, th) ==
    With(RowsToHtml(css, table.cells, th), LAMBDA r :
        IF r.raised THEN [raised |-> TRUE, html |-> <<>>, css |-> r.css]
        ELSE [raised |-> FALSE,
              html |-> Join(<<"\n">>, r.rows),
              css |-> add_css(add_css(r.css, <<".","p","p","t","-","t","a","b","l","e">>,
                                      <<"b","o","r","d","e","r","-","c","o","l","l","a","p","s","e",":","c","o","l","l","a","p","s","e",";","w","i","d","t","h",":","1","0","0","%",";","f","o","n","t","-","s","i","z","e",":","1","4","p","x",";">>),
                              <<".","p","p","t","-","t","a","b","l","e"," ","u","l">>, <<"m","a","r","g","i","n",":","0"," ","0"," ","0"," ","1","8","p","x",";","p","a","d","d","i","n","g",":","0",";">>)])

----------------------------------------------------------------------------
(* Documents the server is given *)

MaxShapes == 1

MaxRequests == 2

NumThreads == 2

Threads == 1..NumThreads

Run0 ==
    [text |-> <<>>, rgb |-> <<>>, theme_color |-> <<>>, name |-> <<>>, size |-> 0,
     bold |-> FALSE, italic |-> FALSE, underline |-> FALSE, fails |-> {}]

Para0 == [runs |-> <<>>, level |-> 0, buChar |-> FALSE, fails |-> {}]

Cell0 ==
    [paragraphs |-> <<Para0>>, fill_rgb |-> <<>>, fill_theme |-> <<>>,
     alignment |-> "NONE", fails |-> {}, is_spanned |-> FALSE,
     span_width |-> 1, span_height |-> 1]

TextCell(text) == [Cell0 EXCEPT !.paragraphs = <<[Para0 EXCEPT !.runs = <<[Run0 EXCEPT !.text = text]>>]>>]

\* a shape without a table (a picture, a text box)
OtherShape == [has_table |-> FALSE, table |-> [cells |-> <<>>]]

\* a 1 x 2 table: a centred cell filled with the theme's accent 1 holding a
\* bold red "Hi", and a right-aligned cell holding "B" in 12.5pt Arial
StyledTable ==
    [has_table |-> TRUE,
     table |-> [cells |-> << <<
        [Cell0 EXCEPT !.alignment = "CENTER",
                      !.fill_theme = <<"A","C","C","E","N","T","_","1">>,
                      !.paragraphs = <<[Para0 EXCEPT !.runs =
                          <<[Run0 EXCEPT !.text = <<"H","i">>, !.rgb = <<255, 0, 0>>,
                                         !.bold = TRUE]>>]>>],
        [Cell0 EXCEPT !.alignment = "RIGHT",
                      !.paragraphs = <<[Para0 EXCEPT !.runs =
                          <<[Run0 EXCEPT !.text = <<"B">>, !.name = <<"A","r","i","a","l">>,
                                         !.size = 1250]>>]>>] >> >>]]

\* a 1 x 1 table whose cell holds a green run and then a run whose font.bold
\* cannot be read
BrokenTable ==
    [has_table |-> TRUE,
     table |-> [cells |-> << <<
        [Cell0 EXCEPT !.paragraphs = <<[Para0 EXCEPT !.runs =
            <<[Run0 EXCEPT !.text = <<"x">>, !.rgb = <<0, 128, 0>>],
              [Run0 EXCEPT !.text = <<"y">>, !.fails = {"bold"}]>>]>>] >> >>]]

ServerShapes == {OtherShape, StyledTable, BrokenTable}

RECURSIVE SeqsUpTo(_, _)
SeqsUpTo(S, n) ==
    IF n = 0 THEN {<<>>}
    ELSE LET shorter == SeqsUpTo(S, n - 1)
         IN shorter \cup {Append(s, x) : s \in {q \in shorter : Len(q) = n - 1}, x \in S}

\* An upload is [has_file, openable, theme, scheme, shapes]: shapes lists the
\* shapes of all slides in slide-then-shape order.  The theme defines accent1
\* as 112233.
Upload(has_file, openable, shapes) ==
    [has_file |-> has_file, openable |-> openable, theme |-> "ok",
     scheme |-> <<[tag |-> <<"{","a","}","a","c","c","e","n","t","1">>, srgb |-> TRUE, has_val |-> TRUE,
                   val |-> <<"1","1","2","2","3","3">>]>>,
     shapes |-> shapes]

NoUpload == Upload(FALSE, FALSE, <<>>)

ServerUploads ==
    {NoUpload, Upload(TRUE, FALSE, <<>>)}
        \cup {Upload(TRUE, TRUE, s) : s \in SeqsUpTo(ServerShapes, MaxShapes)}

NoResponse == [kind |-> "none", style |-> {}, body |-> <<>>]

NoTable == [raised |-> FALSE, html |-> <<>>]

----------------------------------------------------------------------------
(* The server: convert() and pptx_to_html() (server.py lines 288-327), in    *)
(* steps between which another request's thread may run.  Every access to    *)
(* the shared registry is a step of its own: the clear, each add_css call of *)
(* a table, and the read that builds the <style> block.  What a thread does  *)
(* between two such accesses touches only its own document and locals.       *)

\* the function-level specifications keep the function's input in arg and its
\* result, once applied, in ret
NotRun == [done |-> FALSE]

Ran(value) == [done |-> TRUE, value |-> value]

func_idle == arg = <<>> /\ ret = NotRun

ServerInit ==
    /\ GENERATED_CSS = {}
    /\ pc = [t \in Threads |-> "idle"]
    /\ doc = [t \in Threads |-> NoUpload]
    /\ tmp = [t \in Threads |-> 0]
    /\ files = {}
    /\ theme = [t \in Threads |-> <<>>]
    /\ blocks = [t \in Threads |-> <<>>]
    /\ next_table = [t \in Threads |-> 1]
    /\ pending = [t \in Threads |-> <<>>]
    /\ table_out = [t \in Threads |-> NoTable]
    /\ own = [t \in Threads |-> {}]
    /\ response = [t \in Threads |-> NoResponse]
    /\ served = 0

AtRest(t) == pc[t] \in {"idle", "responded"}

\* lines 318-320: no file under "pptFile"
ConvertNoFile(t) ==
    /\ AtRest(t)
    /\ served < MaxRequests
    /\ served' = served + 1
    /\ pc' = [pc EXCEPT ![t] = "responded"]
    /\ doc' = [doc EXCEPT ![t] = NoUpload]
    /\ tmp' = [tmp EXCEPT ![t] = 0]
    /\ response' = [response EXCEPT ![t] = [NoResponse EXCEPT !.kind = "error400"]]
    /\ own' = [own EXCEPT ![t] = {}]
    /\ UNCHANGED <<GENERATED_CSS, files, theme, blocks, next_table, pending, table_out,
                   arg, ret>>

\* lines 322-323: the temporary file is created (delete=False) and written
ConvertSave(t, d) ==
    /\ AtRest(t)
    /\ served < MaxRequests
    /\ d.has_file
    /\ served' = served + 1
    /\ pc' = [pc EXCEPT ![t] = "saved"]
    /\ doc' = [doc EXCEPT ![t] = d]
    /\ tmp' = [tmp EXCEPT ![t] = served + 1]
    /\ files' = files \cup {served + 1}
    /\ response' = [response EXCEPT ![t] = NoResponse]
    /\ own' = [own EXCEPT ![t] = {}]
    /\ UNCHANGED <<GENERATED_CSS, theme, blocks, next_table, pending, table_out, arg,
                   ret>>

\* the clear left out
ClearRegistry_Skipped(t) == GENERATED_CSS' = GENERATED_CSS

\* line 289: GENERATED_CSS.clear()
ClearRegistry(t) == GENERATED_CSS' = {}

Clear(t) ==
    /\ pc[t] = "saved"
    /\ ClearRegistry(t)
    /\ pc' = [pc EXCEPT ![t] = "cleared"]
    /\ UNCHANGED <<doc, tmp, files, theme, blocks, next_table, own, response, served,
                   arg, ret, pending, table_out>>

\* line 291: Presentation(path) raises; the exception leaves pptx_to_html and
\* convert(), so line 326 is not reached
OpenFails(t) ==
    /\ pc[t] = "cleared"
    /\ ~doc[t].openable
    /\ pc' = [pc EXCEPT ![t] = "responded"]
    /\ response' = [response EXCEPT ![t] = [NoResponse EXCEPT !.kind = "raised"]]
    /\ UNCHANGED <<GENERATED_CSS, doc, tmp, files, theme, blocks, next_table, own,
                   served, arg, ret, pending, table_out>>

\* lines 291-293
Open(t) ==
    /\ pc[t] = "cleared"
    /\ doc[t].openable
    /\ theme' = [theme EXCEPT ![t] = extract_theme_colors(doc[t])]
    /\ blocks' = [blocks EXCEPT ![t] = <<>>]
    /\ next_table' = [next_table EXCEPT ![t] = 1]
    /\ pc' = [pc EXCEPT ![t] = "rendering"]
    /\ UNCHANGED <<GENERATED_CSS, doc, tmp, files, pending, table_out, own, response,
                   served, arg, ret>>

\* line 297: a shape without a table
SkipShape(t) ==
    /\ pc[t] = "rendering"
    /\ next_table[t] <= Len(doc[t].shapes)
    /\ ~doc[t].shapes[next_table[t]].has_table
    /\ next_table' = [next_table EXCEPT ![t] = @ + 1]
    /\ UNCHANGED <<GENERATED_CSS, pc, doc, tmp, files, theme, blocks, own, response,
                   served, arg, ret, pending, table_out>>

\* line 298: process_table is entered.  The markup it will return and the
\* add_css calls it will make depend on the thread's own document and theme
\* only (nothing reads the registry before line 301), so they are worked out
\* here; the calls reach the shared registry one at a time, in order.
BeginTable(t) ==
    /\ pc[t] = "rendering"
    /\ next_table[t] <= Len(doc[t].shapes)
    /\ doc[t].shapes[next_table[t]].has_table
    /\ \E r \in {process_table(Registry({}), doc[t].shapes[next_table[t]].table,
                               theme[t])} :
          /\ pending' = [pending EXCEPT ![t] = r.css.calls]
          /\ table_out' = [table_out EXCEPT ![t] = [raised |-> r.raised, html |-> r.html]]
    /\ pc' = [pc EXCEPT ![t] = "in_table"]
    /\ UNCHANGED <<GENERATED_CSS, doc, tmp, files, theme, blocks, next_table, own,
                   response, served, arg, ret>>

\* line 65, called from lines 99-280: the next add_css call of the table.
\* own[t] collects the rules this call of pptx_to_html passes to add_css.
AddCss(t) ==
    /\ pc[t] = "in_table"
    /\ pending[t] # <<>>
    /\ GENERATED_CSS' = GENERATED_CSS \cup {Head(pending[t])}
    /\ own' = [own EXCEPT ![t] = @ \cup {Head(pending[t])}]
    /\ pending' = [pending EXCEPT ![t] = Tail(@)]
    /\ UNCHANGED <<pc, doc, tmp, files, theme, blocks, next_table, table_out, response,
                   served, arg, ret>>

\* lines 282 and 299: process_table returns and the block is appended
EndTable(t) ==
    /\ pc[t] = "in_table"
    /\ pending[t] = <<>>
    /\ ~table_out[t].raised
    /\ blocks' = [blocks EXCEPT ![t] =
                      Append(@, <<"<","t","a","b","l","e"," ","c","l","a","s","s","=","'","p","p","t","-","t","a","b","l","e","'",">">> \o table_out[t].html
                                    \o <<"<","/","t","a","b","l","e",">">>)]
    /\ next_table' = [next_table EXCEPT ![t] = @ + 1]
    /\ pc' = [pc EXCEPT ![t] = "rendering"]
    /\ UNCHANGED <<GENERATED_CSS, doc, tmp, files, theme, pending, table_out, own,
                   response, served, arg, ret>>

\* line 298 when process_table raises: the exception leaves pptx_to_html and
\* convert(); the rules registered before it stay in the registry
TableRaises(t) ==
    /\ pc[t] = "in_table"
    /\ pending[t] = <<>>
    /\ table_out[t].raised
    /\ pc' = [pc EXCEPT ![t] = "responded"]
    /\ response' = [response EXCEPT ![t] = [NoResponse EXCEPT !.kind = "raised"]]
    /\ UNCHANGED <<GENERATED_CSS, doc, tmp, files, theme, blocks, next_table, pending,
                   table_out, own, served, arg, ret>>

\* lines 301-302 and 324: html_out.  The rules are joined in the set's
\* iteration order, which is arbitrary: style holds the lines of the <style>
\* block as a set, body what follows "</style>\n".
Assemble(t) ==
    /\ pc[t] = "rendering"
    /\ next_table[t] > Len(doc[t].shapes)
    /\ response' = [response EXCEPT ![t] =
                        [kind |-> "html_out", style |-> GENERATED_CSS,
                         body |-> Join(<<"<","b","r","/",">">>, blocks[t])]]
    /\ pc' = [pc EXCEPT ![t] = "converted"]
    /\ UNCHANGED <<GENERATED_CSS, doc, tmp, files, theme, blocks, next_table, own,
                   served, arg, ret, pending, table_out>>

\* lines 326-327: os.remove(tmp.name); return jsonify({"html": html_out})
Remove(t) ==
    /\ pc[t] = "converted"
    /\ files' = files \ {tmp[t]}
    /\ response' = [response EXCEPT ![t].kind = "html"]
    /\ pc' = [pc EXCEPT ![t] = "responded"]
    /\ UNCHANGED <<GENERATED_CSS, doc, tmp, theme, blocks, next_table, own, served,
                   arg, ret, pending, table_out>>

Step(t) ==
    \/ Clear(t)
    \/ OpenFails(t)
    \/ Open(t)
    \/ SkipShape(t)
    \/ BeginTable(t)
    \/ AddCss(t)
    \/ EndTable(t)
    \/ TableRaises(t)
    \/ Assemble(t)
    \/ Remove(t)

\* Requests handled one after another: a request is accepted only while no
\* other is in progress.
Init == ServerInit /\ func_idle

Quiet(t) == \A u \in Threads \ {t} : AtRest(u)

SeqConvertNoFile(t) == Quiet(t) /\ ConvertNoFile(t)

SeqConvertSave(t) == Quiet(t) /\ \E d \in ServerUploads : ConvertSave(t, d)

Next == \E t \in Threads : SeqConvertNoFile(t) \/ SeqConvertSave(t) \/ Step(t)

Spec == Init /\ [][Next]_vars

\* Requests handled by concurrent threads of one process (app.run serves each
\* request on its own thread): any interleaving of the steps.
ConcConvertSave(t) == \E d \in ServerUploads : ConvertSave(t, d)

NextConcurrent == \E t \in Threads : ConvertNoFile(t) \/ ConcConvertSave(t) \/ Step(t)

SpecConcurrent == Init /\ [][NextConcurrent]_vars

----------------------------------------------------------------------------
(* Reading the produced HTML back *)

\* the positions at which pat occurs in s
Occurrences(s, pat) ==
    {i \in 1..(Len(s) - Len(pat) + 1) :
        s[i] = pat[1] /\ SubSeq(s, i, i + Len(pat) - 1) = pat}

\* the maximal space-free pieces of v
Words(v) ==
    {SubSeq(v, a, b) : <<a, b>> \in
        {p \in (1..Len(v)) \X (1..Len(v)) :
            /\ p[1] <= p[2]
            /\ \A k \in p[1]..p[2] : v[k] # " "
            /\ (p[1] = 1 \/ v[p[1] - 1] = " ")
            /\ (p[2] = Len(v) \/ v[p[2] + 1] = " ")}}

\* the value of the class attribute that starts at position i (class="..." or
\* class='...')
ClassAttrValue(s, i) ==
    LET q == s[i + 6]
        e == CHOOSE j \in (i + 7)..Len(s) :
                 s[j] = q /\ \A k \in (i + 7)..(j - 1) : s[k] # q
    IN SubSeq(s, i + 7, e - 1)

\* every class name used in a class attribute of s
ClassesIn(s) ==
    UNION {Words(ClassAttrValue(s, i)) :
              i \in {j \in Occurrences(s, <<"c","l","a","s","s","=">>) :
                        j + 6 <= Len(s) /\ s[j + 6] \in {"\"", "'"}}}

\* the rules of a stylesheet whose selector is the class cls
RulesFor(style, cls) == {r \in style : StartsWith(r, <<".">> \o cls \o <<" ","{"," ">>)}

Returned(t) == response[t].kind \in {"html_out", "html"}

----------------------------------------------------------------------------
(* Claims about the server *)

\* C1: for any interleaving of two pptx_to_html calls, the <style> block a call
\* returns holds exactly the rules its own rendering registered.
C1_StyleIsOwnRules == \A t \in Threads : Returned(t) => response[t].style = own[t]

\* C2: when calls run one after another, the registry is empty when a call
\* starts rendering, and the stylesheet a call returns holds no rule but those
\* registered while rendering its own document.
C2_NoLeftoverRules ==
    \A t \in Threads :
        /\ (pc[t] = "rendering" /\ next_table[t] = 1) => GENERATED_CSS = {}
        /\ Returned(t) => response[t].style \subseteq own[t]

\* a second call has returned a non-empty stylesheet after an earlier call, on
\* the other thread, registered a rule that the second call's document does not
C2_Witness ==
    \E t \in Threads : \E u \in Threads \ {t} :
        /\ response[t].kind = "html"
        /\ tmp[t] > 1
        /\ response[t].style # {}
        /\ tmp[u] # 0
        /\ tmp[u] < tmp[t]
        /\ own[u] \ response[t].style # {}

\* C3: once convert() has finished a request that uploaded a file, its
\* temporary file no longer exists.
C3_TempFileDeleted ==
    \A t \in Threads : (pc[t] = "responded" /\ tmp[t] # 0) => tmp[t] \notin files

\* C4: once the document has been opened, no exception leaves pptx_to_html.
C4_OpenedNeverRaises ==
    \A t \in Threads : response[t].kind = "raised" => ~doc[t].openable

\* C10: every class used in a class attribute of the returned markup has a rule
\* with that class as selector in the same output's <style> block.
C10_UsedClassesHaveRules ==
    \A t \in Threads :
        Returned(t) =>
            \A cls \in ClassesIn(response[t].body) : RulesFor(response[t].style, cls) # {}

----------------------------------------------------------------------------
(* run_to_html on its own *)

MaxTextLen == 2

\* the theme of a presentation without a colour scheme: the defaults
DefaultTheme == extract_theme_colors([theme |-> "absent", scheme |-> <<>>])

RunTexts == SeqsUpTo({"H", "i", "<"}, MaxTextLen)

RunInputs ==
    {[text |-> t, rgb |-> c[1], theme_color |-> c[2], name |-> n, size |-> s,
      bold |-> b, italic |-> i, underline |-> u, fails |-> f] :
        t \in RunTexts,
        c \in {<< <<>>, <<>> >>, << <<255, 0, 0>>, <<>> >>, << <<>>, <<"A","C","C","E","N","T","_","1">> >>},
        n \in {<<>>, <<"A","r","i","a","l">>},
        s \in {0, 1250},
        b \in BOOLEAN, i \in BOOLEAN, u \in BOOLEAN,
        f \in {{}, {"color"}, {"underline"}}}

RunInit == ServerInit /\ arg \in RunInputs /\ ret = NotRun

ApplyRun ==
    /\ ~ret.done
    /\ ret' = Ran(run_to_html(Registry({}), arg, DefaultTheme))
    /\ UNCHANGED <<arg, server_vars>>

SpecRun == RunInit /\ [][ApplyRun]_vars

EndsWith(s, p) == Len(p) <= Len(s) /\ SubSeq(s, Len(s) - Len(p) + 1, Len(s)) = p

Peel(h, open, close) == SubSeq(h, Len(open) + 1, Len(h) - Len(close))

\* layers lists <<flag, open tag, close tag>> from the outermost tag inwards.
\* ok: h carries every flagged tag, nested in that order; core: what they wrap
RECURSIVE Unwrap(_, _)
Unwrap(h, layers) ==
    IF layers = <<>> THEN [ok |-> TRUE, core |-> h]
    ELSE IF ~layers[1][1] THEN Unwrap(h, Tail(layers))
    ELSE IF /\ StartsWith(h, layers[1][2])
            /\ EndsWith(h, layers[1][3])
            /\ Len(h) >= Len(layers[1][2]) + Len(layers[1][3])
    THEN Unwrap(Peel(h, layers[1][2], layers[1][3]), Tail(layers))
    ELSE [ok |-> FALSE, core |-> h]

BoldLayer(run) == <<run.bold, <<"<","b",">">>, <<"<","/","b",">">>>>

ItalicLayer(run) == <<run.italic, <<"<","i",">">>, <<"<","/","i",">">>>>

UnderlineLayer(run) == <<run.underline, <<"<","u",">">>, <<"<","/","u",">">>>>

\* h is the escaped text of run, bare or inside one class-bearing <span>
IsSpanOf(h, run) ==
    \/ h = html_escape(run.text)
    \/ /\ StartsWith(h, <<"<","s","p","a","n"," ","c","l","a","s","s","=","\"">>)
       /\ EndsWith(h, <<"\"",">">> \o html_escape(run.text) \o <<"<","/","s","p","a","n",">">>)

\* h is the span of run inside exactly its flagged tags, nested as layers say
NestedAsListed(h, run, layers) ==
    Unwrap(h, layers).ok /\ IsSpanOf(Unwrap(h, layers).core, run)

RunRendered == ret.done /\ arg.text # <<>> /\ ~ret.value.raised

ExampleAll == [Run0 EXCEPT !.text = <<"H","i">>, !.bold = TRUE, !.italic = TRUE, !.underline = TRUE]

ExampleBoldRed == [Run0 EXCEPT !.text = <<"H","i">>, !.bold = TRUE, !.rgb = <<255, 0, 0>>]

\* C5 as the spec states it: the emphasis tags nest outer-to-inner in the order
\* bold, italic, underline around the span; all three give
\* <b><i><u>Hi</u></i></b>, and a bold red "Hi" gives
\* <b><span class="text-FF0000">Hi</span></b>.
C5_BoldOutermost ==
    RunRendered =>
        /\ NestedAsListed(ret.value.html, arg,
                          <<BoldLayer(arg), ItalicLayer(arg), UnderlineLayer(arg)>>)
        /\ arg = ExampleAll => ret.value.html = <<"<","b",">","<","i",">","<","u",">","H","i","<","/","u",">","<","/","i",">","<","/","b",">">>
        /\ arg = ExampleBoldRed =>
               ret.value.html = <<"<","b",">","<","s","p","a","n"," ","c","l","a","s","s","=","\"","t","e","x","t","-","F","F","0","0","0","0","\"",">","H","i","<","/","s","p","a","n",">","<","/","b",">">>

\* C5 amended: for every run with non-empty text and every combination of its
\* flags, the emphasis tags nest outer-to-inner in the order underline, italic,
\* bold around the span; all three give <u><i><b>Hi</b></i></u>, and a bold red
\* "Hi" gives <b><span class="text-FF0000">Hi</span></b>.
C5_UnderlineOutermost ==
    RunRendered =>
        /\ NestedAsListed(ret.value.html, arg,
                          <<UnderlineLayer(arg), ItalicLayer(arg), BoldLayer(arg)>>)
        /\ arg = ExampleAll => ret.value.html = <<"<","u",">","<","i",">","<","b",">","H","i","<","/","b",">","<","/","i",">","<","/","u",">">>
        /\ arg = ExampleBoldRed =>
               ret.value.html = <<"<","b",">","<","s","p","a","n"," ","c","l","a","s","s","=","\"","t","e","x","t","-","F","F","0","0","0","0","\"",">","H","i","<","/","s","p","a","n",">","<","/","b",">">>

\* a run with all three flags set and a class-bearing span has been rendered
C5_Witness ==
    /\ RunRendered
    /\ arg.bold /\ arg.italic /\ arg.underline
    /\ arg.rgb # <<>>
    /\ arg.text = <<"H","i">>

----------------------------------------------------------------------------
(* cell_content on its own *)

MaxParas == 2

\* paragraphs of one run: a letter, blanks only (a no-break space and a
\* space), or the literal text "<li>"; at
\* indent level 0 or 1; with or without <a:buChar>; with bullet metadata that
\* reads fine or raises
ParaInputs ==
    {[runs |-> <<[Run0 EXCEPT !.text = t]>>, level |-> l, buChar |-> b, fails |-> f] :
        t \in {<<"a">>, <<" ", " ">>, <<"<","l","i",">">>},
        l \in {0, 1},
        b \in BOOLEAN,
        f \in {{}, {"level"}, {"pPr"}}}

CellInputs == {[Cell0 EXCEPT !.paragraphs = ps] : ps \in SeqsUpTo(ParaInputs, MaxParas)}

CellInit == ServerInit /\ arg \in CellInputs /\ ret = NotRun

ApplyCell ==
    /\ ~ret.done
    /\ ret' = Ran(cell_content(Registry({}), arg, DefaultTheme))
    /\ UNCHANGED <<arg, server_vars>>

SpecCell == CellInit /\ [][ApplyCell]_vars

ParaOutput(p) == para_to_html(Registry({}), p, DefaultTheme).html

\* the paragraphs of the cell whose output is not empty, in order
KeptParas(cell) == SelectSeq(cell.paragraphs, LAMBDA p : ParaOutput(p) # <<>>)

KeptOutputs(cell) == [k \in DOMAIN KeptParas(cell) |-> ParaOutput(KeptParas(cell)[k])]

\* the paragraph is marked as a bullet item: indent level > 0 or an explicit
\* bullet character
HasBulletMark(p) == p.level > 0 \/ p.buChar

\* the paragraph's bullet mark can be read: its indent level reads and is > 0,
\* or its indent level reads as 0 and its paragraph properties read and hold a
\* bullet character
ReadableBulletMark(p) ==
    /\ "level" \notin p.fails
    /\ \/ p.level > 0
       \/ "pPr" \notin p.fails /\ p.buChar

\* C7 as the spec states it: paragraphs with empty output are dropped; if no
\* remaining paragraph is a bullet item (indent level > 0 or explicit bullet
\* character) the output is the paragraph outputs joined by <br/>, with no <ul>
\* and no <li>; if at least one remaining paragraph is a bullet item the output
\* is exactly one <ul> wrapping all remaining paragraph outputs in their order.
C7_BulletMarkMakesList ==
    ret.done =>
        /\ ~ret.value.raised
        /\ (\A k \in DOMAIN KeptParas(arg) : ~HasBulletMark(KeptParas(arg)[k])) =>
               /\ ret.value.html = Join(<<"<","b","r","/",">">>, KeptOutputs(arg))
               /\ Occurrences(ret.value.html, <<"<","u","l",">">>) = {}
               /\ Occurrences(ret.value.html, <<"<","l","i",">">>) = {}
        /\ (\E k \in DOMAIN KeptParas(arg) : HasBulletMark(KeptParas(arg)[k])) =>
               /\ ret.value.html = <<"<","u","l",">">> \o Join(<<>>, KeptOutputs(arg)) \o <<"<","/","u","l",">">>
               /\ Cardinality(Occurrences(ret.value.html, <<"<","u","l",">">>)) = 1

\* C7 amended: paragraphs with empty output are dropped; a remaining paragraph
\* counts as a bullet item only if its bullet mark can be read (a raising read
\* of the indent level hides a bullet character, a raising read of the
\* paragraph properties hides it when the level is 0).  If no remaining
\* paragraph counts, the output is the paragraph outputs joined by <br/>, with
\* no <ul> and no <li>; if at least one counts, the output is exactly one <ul>
\* wrapping all remaining paragraph outputs in their order.
C7_CellContent ==
    ret.done =>
        /\ ~ret.value.raised
        /\ (\A k \in DOMAIN KeptParas(arg) : ~ReadableBulletMark(KeptParas(arg)[k])) =>
               /\ ret.value.html = Join(<<"<","b","r","/",">">>, KeptOutputs(arg))
               /\ Occurrences(ret.value.html, <<"<","u","l",">">>) = {}
               /\ Occurrences(ret.value.html, <<"<","l","i",">">>) = {}
        /\ (\E k \in DOMAIN KeptParas(arg) : ReadableBulletMark(KeptParas(arg)[k])) =>
               /\ ret.value.html = <<"<","u","l",">">> \o Join(<<>>, KeptOutputs(arg)) \o <<"<","/","u","l",">">>
               /\ Cardinality(Occurrences(ret.value.html, <<"<","u","l",">">>)) = 1

\* a cell with two kept paragraphs has been rendered as plain lines although
\* one carries a bullet character, its indent level being unreadable; the
\* other is a plain paragraph whose text is "<li>"
C7_Witness ==
    /\ ret.done
    /\ Len(KeptParas(arg)) = 2
    /\ Occurrences(ret.value.html, <<"<","b","r","/",">">>) # {}
    /\ \E j, k \in DOMAIN KeptParas(arg) :
          /\ KeptParas(arg)[j].buChar /\ "level" \in KeptParas(arg)[j].fails
          /\ ~HasBulletMark(KeptParas(arg)[k])
          /\ KeptParas(arg)[k].runs[1].text = <<"<","l","i",">">>

----------------------------------------------------------------------------
(* process_table on its own *)

MaxRows == 2

MaxCols == 2

MaxMerges == 1

\* the merges that fit an nr x nc grid: anchor (r, c), w columns by h rows
Merges(nr, nc) ==
    {m \in [r : 1..nr, c : 1..nc, w : 1..nc, h : 1..nr] :
        /\ m.c + m.w - 1 <= nc
        /\ m.r + m.h - 1 <= nr
        /\ m.w * m.h > 1}

Covers(m, r, c) == m.r <= r /\ r < m.r + m.h /\ m.c <= c /\ c < m.c + m.w

Overlap(m, n) ==
    \E r \in m.r..(m.r + m.h - 1), c \in m.c..(m.c + m.w - 1) : Covers(n, r, c)

RECURSIVE MergeSets(_, _, _)
MergeSets(nr, nc, k) ==
    IF k = 0 THEN {{}}
    ELSE LET fewer == MergeSets(nr, nc, k - 1)
         IN fewer \cup UNION {{M \cup {m} : m \in {x \in Merges(nr, nc) :
                                                          \A y \in M : ~Overlap(x, y)}} :
                                  M \in fewer}

IsAnchor(M, r, c) == \E m \in M : m.r = r /\ m.c = c

\* covered by a merge and not its anchor
IsCovered(M, r, c) == \E m \in M : Covers(m, r, c) /\ ~(m.r = r /\ m.c = c)

SpanWidth(M, r, c) == IF IsAnchor(M, r, c) THEN (CHOOSE m \in M : m.r = r /\ m.c = c).w ELSE 1

SpanHeight(M, r, c) == IF IsAnchor(M, r, c) THEN (CHOOSE m \in M : m.r = r /\ m.c = c).h ELSE 1

\* the text of cell (r, c): "A", "B", ... in row-then-column order
CellLetter(nc, r, c) == <<UpperChars[(r - 1) * nc + c]>>

\* The cells as the library presents a table with the merges M: is_spanned on
\* the covered cells, the span on each anchor.  Every cell holds its letter,
\* as a bullet item or not, with the given alignment.
GridCell(nc, M, r, c, align, bullet) ==
    [Cell0 EXCEPT !.paragraphs = <<[Para0 EXCEPT
                                       !.runs = <<[Run0 EXCEPT !.text = CellLetter(nc, r, c)]>>,
                                       !.buChar = bullet]>>,
                  !.alignment = align,
                  !.is_spanned = IsCovered(M, r, c),
                  !.span_width = SpanWidth(M, r, c),
                  !.span_height = SpanHeight(M, r, c)]

TableInputs ==
    {[nrows |-> nr, ncols |-> nc, merges |-> M,
      table |-> [cells |-> [r \in 1..nr |-> [c \in 1..nc |->
                                GridCell(nc, M, r, c, v[1], v[2])]]]] :
        <<nr, nc, M>> \in UNION {{<<a, b, X>> : X \in MergeSets(a, b, MaxMerges)} :
                                   <<a, b>> \in (1..MaxRows) \X (1..MaxCols)},
        v \in {"NONE", "CENTER", "RIGHT"} \X BOOLEAN}

TableInit == ServerInit /\ arg \in TableInputs /\ ret = NotRun

ApplyTable ==
    /\ ~ret.done
    /\ ret' = Ran(process_table(Registry({}), arg.table, DefaultTheme))
    /\ UNCHANGED <<arg, server_vars>>

SpecTable == TableInit /\ [][ApplyTable]_vars

\* the n-th smallest element of a set of numbers
Nth(S, n) == CHOOSE x \in S : Cardinality({y \in S : y < x}) = n - 1

\* the columns of row r whose cell is not covered by another cell's merge
ShownCols(t, r) == {c \in 1..t.ncols : ~IsCovered(t.merges, r, c)}

\* the positions among ps that lie strictly between lo and hi
Between(ps, lo, hi) == {p \in ps : lo < p /\ p < hi}

\* positions of the "<td " openers / "</td>" closers inside the r-th <tr>
TdOpeners(h, r) ==
    Between(Occurrences(h, <<"<","t","d"," ">>), Nth(Occurrences(h, <<"<","t","r",">">>), r),
            Nth(Occurrences(h, <<"<","/","t","r",">">>), r))

TdClosers(h, r) ==
    Between(Occurrences(h, <<"<","/","t","d",">">>), Nth(Occurrences(h, <<"<","t","r",">">>), r),
            Nth(Occurrences(h, <<"<","/","t","r",">">>), r))

StartsWithAt(h, p, pat) == p + Len(pat) - 1 <= Len(h) /\ SubSeq(h, p, p + Len(pat) - 1) = pat

\* the upper-case letters between positions p and e
LettersBetween(h, p, e) == {h[i] : i \in p..e} \cap Range(UpperChars)

\* C6: one <tr> per row and, in it, one <td> per cell that is not spanned, in
\* column order; a <td> carries colspan and rowspan equal to the span width
\* and height of its cell (1 and 1 when unmerged); the cells a merge covers,
\* other than its anchor, emit nothing.
C6_OneTdPerShownCell ==
    ret.done =>
        /\ ~ret.value.raised
        /\ LET h == ret.value.html
               trs == Occurrences(h, <<"<","t","r",">">>)
               tre == Occurrences(h, <<"<","/","t","r",">">>)
               tds == Occurrences(h, <<"<","t","d"," ">>)
               tde == Occurrences(h, <<"<","/","t","d",">">>)
           IN /\ Cardinality(trs) = arg.nrows
              /\ Cardinality(tre) = arg.nrows
              /\ \A r \in 1..arg.nrows :
                    LET shown == ShownCols(arg, r)
                        opens == Between(tds, Nth(trs, r), Nth(tre, r))
                        closes == Between(tde, Nth(trs, r), Nth(tre, r))
                    IN /\ Cardinality(opens) = Cardinality(shown)
                       /\ Cardinality(closes) = Cardinality(shown)
                       /\ \A j \in 1..Cardinality(shown) :
                             LET c == Nth(shown, j)
                                 p == Nth(opens, j)
                                 e == Nth(closes, j)
                             IN /\ StartsWithAt(h, p,
                                       <<"<","t","d"," ","c","o","l","s","p","a","n","=","\"">>
                                           \o IntToStr(SpanWidth(arg.merges, r, c))
                                           \o <<"\""," ","r","o","w","s","p","a","n","=","\"">>
                                           \o IntToStr(SpanHeight(arg.merges, r, c))
                                           \o <<"\""," ">>)
                                /\ p < e
                                /\ LettersBetween(h, p, e)
                                       = Range(CellLetter(arg.ncols, r, c))

\* the 2 x 2 table whose top-left cell is merged across both columns has been
\* rendered: one <td> in the first row, two in the second
C6_Witness ==
    /\ ret.done
    /\ arg.nrows = 2 /\ arg.ncols = 2
    /\ arg.merges = {[r |-> 1, c |-> 1, w |-> 2, h |-> 1]}
    /\ Cardinality(TdOpeners(ret.value.html, 1)) = 1
    /\ Cardinality(TdOpeners(ret.value.html, 2)) = 2

----------------------------------------------------------------------------
(* The style classifiers within one conversion: arg is the last call made,   *)
(* ret.value the rules in the registry after it.                             *)

CssInit == ServerInit /\ arg = <<"pptx_to_html">> /\ ret = Ran({})

CssBg ==
    \E hex \in {<<"#","F","F","0","0","0","0">>}, semantic \in {<<>>, <<"a","c","c","e","n","t","_","1">>} :
        /\ ret' = Ran(bg_classes(Registry(ret.value), hex, semantic).css.rules)
        /\ arg' = <<"bg_classes", hex, semantic>>
        /\ UNCHANGED server_vars

CssText ==
    \E hex \in {<<"#","F","F","0","0","0","0">>} :
        /\ ret' = Ran(text_color_class(Registry(ret.value), hex).css.rules)
        /\ arg' = <<"text_color_class", hex>>
        /\ UNCHANGED server_vars

CssFamily ==
    \E name \in {<<"A","r","i","a","l">>, <<"C","o","u","r","i","e","r"," ","N","e","w">>, <<"C","o","u","r","i","e","r","-","N","e","w">>} :
        /\ ret' = Ran(font_family_class(Registry(ret.value), name).css.rules)
        /\ arg' = <<"font_family_class", name>>
        /\ UNCHANGED server_vars

CssSize ==
    \E pt100 \in {1200, 1250} :
        /\ ret' = Ran(font_size_class(Registry(ret.value), pt100).css.rules)
        /\ arg' = <<"font_size_class", pt100>>
        /\ UNCHANGED server_vars

CssCell ==
    \E align \in {"NONE", "CENTER"} :
        /\ ret' = Ran(cell_classes(Registry(ret.value), [Cell0 EXCEPT !.alignment = align],
                                   DefaultTheme).css.rules)
        /\ arg' = <<"cell_classes", align>>
        /\ UNCHANGED server_vars

CssNext == CssBg \/ CssText \/ CssFamily \/ CssSize \/ CssCell

SpecCss == CssInit /\ [][CssNext]_vars

\* the selector of a rule "selector { body }"
SelectorOf(rule) == SubSeq(rule, 1, Nth(Occurrences(rule, <<" ","{"," ">>), 1) - 1)

\* C8: after any sequence of classifier calls the registry holds exactly one
\* rule per class selector: never two rules for the same class.
C8_OneRulePerSelector ==
    \A r1, r2 \in ret.value : SelectorOf(r1) = SelectorOf(r2) => r1 = r2

----------------------------------------------------------------------------
(* extract_theme_colors on its own *)

MaxSchemeLen == 3

\* children of <a:clrScheme>: accent1 and dk1 as sRGB colours, accent2 as a
\* system colour (no <a:srgbClr>), accent3 with an <a:srgbClr> that has no
\* val, accent4 with an <a:srgbClr> whose val is empty
SchemeElements ==
    {[tag |-> <<"{","a","}","a","c","c","e","n","t","1">>, srgb |-> TRUE, has_val |-> TRUE, val |-> <<"1","1","2","2","3","3">>],
     [tag |-> <<"{","a","}","d","k","1">>, srgb |-> TRUE, has_val |-> TRUE, val |-> <<"0","0","0","0","0","0">>],
     [tag |-> <<"{","a","}","a","c","c","e","n","t","2">>, srgb |-> FALSE, has_val |-> FALSE, val |-> <<>>],
     [tag |-> <<"{","a","}","a","c","c","e","n","t","3">>, srgb |-> TRUE, has_val |-> FALSE, val |-> <<>>],
     [tag |-> <<"{","a","}","a","c","c","e","n","t","4">>, srgb |-> TRUE, has_val |-> TRUE, val |-> <<>>]}

ThemeInputs ==
    {[theme |-> "error", scheme |-> <<>>], [theme |-> "absent", scheme |-> <<>>]}
        \cup {[theme |-> "ok", scheme |-> s] : s \in SeqsUpTo(SchemeElements, MaxSchemeLen)}

ThemeInit == ServerInit /\ arg \in ThemeInputs /\ ret = NotRun

ApplyTheme ==
    /\ ~ret.done
    /\ ret' = Ran(extract_theme_colors(arg))
    /\ UNCHANGED <<arg, server_vars>>

SpecTheme == ThemeInit /\ [][ApplyTheme]_vars

\* the standard slots: <<name, underscored name>>
StandardSlots ==
    {<<<<"A","C","C","E","N","T">> \o <<d>>, <<"A","C","C","E","N","T","_">> \o <<d>>>> : d \in {"1", "2", "3", "4", "5", "6"}}
        \cup {<<w \o <<d>>, w \o <<"_">> \o <<d>>>> :
                 w \in {<<"T","E","X","T">>, <<"B","A","C","K","G","R","O","U","N","D">>}, d \in {"1", "2"}}

\* C9: the returned map has every standard slot under both spellings, and the
\* two spellings of a slot map to the same hex value.
C9_SpellingsAgree ==
    ret.done =>
        \A slot \in StandardSlots :
            /\ slot[1] \in DOMAIN ret.value
            /\ slot[2] \in DOMAIN ret.value
            /\ ret.value[slot[1]] = ret.value[slot[2]]

====
